---- MODULE Spec2Model ----
(***************************************************************************)
(* Model of pylayers/measures/parker/smparker.py: the Axes controller of   *)
(* a Parker stepper-motor scanner (class Axes), its profile list, its      *)
(* three register arrays and the commands it writes to the serial port     *)
(* shared by the axes of one Scanner.                                      *)
(*                                                                         *)
(* Strings are sequences of one-character strings, so that str(), the      *)
(* concatenations of Axes.com and the replace/split of Axes.reg are        *)
(* computed character by character as the code computes them.              *)
(***************************************************************************)
EXTENDS Integers, Sequences, FiniteSets, TLC

VARIABLES
    lprofile,   \* lprofile[a] : Axes.lprofile of axis a, a list of Profile
    status,     \* status[a]   : Axes.status of axis a, 32 entries
    usrflt,     \* usrflt[a]   : Axes.usrflt of axis a, 32 entries
    drvflt,     \* drvflt[a]   : Axes.drvflt of axis a, 32 entries
    ser,        \* traffic on the shared serial port during the latest call
    unread,     \* a command was written and its response has not been read
    call,       \* the latest call: method, axis, argument, outcome
    ncalls      \* number of calls made so far

vars == <<lprofile, status, usrflt, drvflt, ser, unread, call, ncalls>>

(***************************************************************************)
(* Bounds of the model.                                                    *)
(***************************************************************************)
\* calls explored by SpecMove
MaxMoveCalls == 2
\* calls explored by SpecReg
MaxRegCalls == 2
\* calls explored by SpecProfile
MaxProfileCalls == 9
\* mv is called with var = n or n/1024 for n in -MaxVar..MaxVar
MaxVar == 10
\* del_profile and set_profile are called with numbers in -MaxIndex..8+MaxIndex
MaxIndex == 2
\* home('set') is called with vel in -MaxVel..MaxVel
MaxVel == 3
\* calls explored by SpecTransport
MaxTransportCalls == 2
\* Profile is constructed with N in 2..MaxN samples
MaxN == 6

(***************************************************************************)
(* Scanner.__init__: the axes, their ids and their scales.  The scale of   *)
(* axis 3 is the double nearest to 19000/9; scales are kept as fractions.  *)
(***************************************************************************)
AxisIds == {1, 2, 3}

scale == [a \in AxisIds |->
            CASE a = 1 -> [n |-> 12800, d |-> 1]
              [] a = 2 -> [n |-> 22800, d |-> 1]
              [] a = 3 -> [n |-> 19000, d |-> 9]]

\* the 32 zeros of Axes.__init__
Zeros32 == [i \in 1..32 |-> 0]

(***************************************************************************)
(* Python's str() of an int and int() of a number.                         *)
(***************************************************************************)
Digit(d) ==
    CASE d = 0 -> "0" [] d = 1 -> "1" [] d = 2 -> "2" [] d = 3 -> "3"
      [] d = 4 -> "4" [] d = 5 -> "5" [] d = 6 -> "6" [] d = 7 -> "7"
      [] d = 8 -> "8" [] d = 9 -> "9"

RECURSIVE strNat(_)
strNat(n) ==
    IF n < 10 THEN <<Digit(n)>> ELSE strNat(n \div 10) \o <<Digit(n % 10)>>

str(n) == IF n < 0 THEN <<"-">> \o strNat(-n) ELSE strNat(n)

\* int(n/d): truncation toward zero (d > 0)
int(n, d) == IF n >= 0 THEN n \div d ELSE -((-n) \div d)

(***************************************************************************)
(* The serial port.  ser is the list of the events of the latest call:     *)
(* a write carries the bytes written, a readlines the lines returned.      *)
(***************************************************************************)
CRLF == <<"\r", "\n">>

WriteEv(cst) == [ev |-> "write", data |-> cst]
ReadEv(lines) == [ev |-> "readlines", data |-> lines]

\* the bytes written during the latest call, one entry per write
Written(log) ==
    LET w == SelectSeq(log, LAMBDA e : e.ev = "write")
    IN  [i \in 1..Len(w) |-> w[i].data]

(***************************************************************************)
(* Axes.com(command): frames the command with the axis id and CR LF,       *)
(* writes it and reads the reply lines.  Yields the port traffic after     *)
(* the exchange.                                                           *)
(***************************************************************************)
com(a, command, reply, log) ==
    log \o <<WriteEv(str(a) \o command \o CRLF), ReadEv(reply)>>

\* what the controller sends back when the code does not look at it
NoReply == <<>>

(***************************************************************************)
(* The port may fail: Serial.write or Serial.readlines raises             *)
(* SerialException, which com lets through to its caller.  A fault names   *)
(* the exchange of the call it strikes (at, 0 for none) and the method     *)
(* that raises (kind).                                                     *)
(***************************************************************************)
NoFault == [at |-> 0, kind |-> "none"]

Faults(n) ==
    {NoFault} \cup {[at |-> k, kind |-> x] : k \in 1..n, x \in {"write", "read"}}

\* Axes.com when the port fails: the write raises and nothing is written,
\* or the command is written and readlines raises
comRaises(a, command, kind, log) ==
    IF kind = "write"
    THEN log \o <<[ev |-> "write_error", data |-> str(a) \o command \o CRLF]>>
    ELSE log \o <<WriteEv(str(a) \o command \o CRLF),
                  [ev |-> "readlines_error", data |-> <<>>]>>

\* the calls self.com(cmds[i]), self.com(cmds[i+1]), ... made one after the
\* other, up to the one that raises
RECURSIVE comAll(_, _, _, _, _, _)
comAll(a, cmds, replies, fault, i, log) ==
    IF i > Len(cmds) THEN log
    ELSE IF fault.at = i THEN comRaises(a, cmds[i], fault.kind, log)
    ELSE comAll(a, cmds, replies, fault, i + 1,
                com(a, cmds[i], replies[i], log))

\* whether one of n calls of com raises
Raises(fault, n) == fault.at \in 1..n

\* whether a response is outstanding after the events of log
RECURSIVE Outstanding(_, _)
Outstanding(before, log) ==
    IF log = <<>> THEN before
    ELSE LET e == log[Len(log)]
         IN  IF e.ev = "readlines" THEN FALSE
             ELSE IF e.ev = "write_error"
                  THEN Outstanding(before, SubSeq(log, 1, Len(log) - 1))
                  ELSE TRUE

(***************************************************************************)
(* Axes.mv(var): nstep = int(var*scale); D<nstep>, G, and then two calls   *)
(* whose arguments scom2 and scom3 are names bound nowhere: evaluating     *)
(* the first raises NameError before anything more is written.             *)
(* var is the fraction var.n / var.d.                                      *)
(***************************************************************************)
nstepOf(a, var) == int(var.n * scale[a].n, var.d * scale[a].d)

\* mv as it would write were scom2 bound to a command
mvTraffic_third(a, var, fault) ==
    LET scom1 == <<"D">> \o str(nstepOf(a, var))
    IN  comAll(a, <<scom1, <<"G">>, <<"G">>>>, <<NoReply, NoReply, NoReply>>,
               fault, 1, <<>>)

mvTraffic(a, var, fault) ==
    LET scom1 == <<"D">> \o str(nstepOf(a, var))
    IN  comAll(a, <<scom1, <<"G">>>>, <<NoReply, NoReply>>, fault, 1, <<>>)

\* how mv ends: the port's error, or else the NameError of line 537
mvResult(fault) == IF Raises(fault, 2) THEN "SerialException" ELSE "NameError"

mv(a, var, fault) ==
    /\ ser' = mvTraffic(a, var, fault)
    /\ unread' = Outstanding(unread, ser')
    /\ call' = [op |-> "mv", axis |-> a, arg |-> var, fault |-> fault,
                result |-> mvResult(fault), out |-> <<>>]
    /\ ncalls' = ncalls + 1
    /\ UNCHANGED <<lprofile, status, usrflt, drvflt>>

Vars == {[n |-> k, d |-> e] : k \in -MaxVar..MaxVar, e \in {1, 1024}}

(***************************************************************************)
(* The Status Code Tables: the codes that have a description in            *)
(* Axes.dstatus, Axes.dusrflt and Axes.ddrvflt.                            *)
(***************************************************************************)
dstatus == (1..7) \cup {9} \cup (11..14) \cup (19..22)
dusrflt == (1..19) \cup {22, 23}
ddrvflt == 1..8

(***************************************************************************)
(* The string methods Axes.reg applies to the reply line.                  *)
(***************************************************************************)
\* s.replace(c, '') for a one-character c
replace(s, c) == SelectSeq(s, LAMBDA x : x # c)

\* s.replace('\r\n', '')
RECURSIVE replaceCRLF(_)
replaceCRLF(s) ==
    IF Len(s) < 2 THEN s
    ELSE IF s[1] = "\r" /\ s[2] = "\n" THEN replaceCRLF(SubSeq(s, 3, Len(s)))
    ELSE <<s[1]>> \o replaceCRLF(Tail(s))

\* s.split(sep) for a one-character sep: always at least one piece
RECURSIVE split(_, _)
split(s, sep) ==
    IF \A i \in 1..Len(s) : s[i] # sep THEN <<s>>
    ELSE LET i == CHOOSE j \in 1..Len(s) :
                      s[j] = sep /\ \A h \in 1..(j - 1) : s[h] # sep
         IN  <<SubSeq(s, 1, i - 1)>> \o split(SubSeq(s, i + 1, Len(s)), sep)

\* eval of a one-digit string
eval(c) ==
    CASE c = "0" -> 0 [] c = "1" -> 1 [] c = "2" -> 2 [] c = "3" -> 3
      [] c = "4" -> 4 [] c = "5" -> 5 [] c = "6" -> 6 [] c = "7" -> 7
      [] c = "8" -> 8 [] c = "9" -> 9

\* whether sub occurs in s (Python: sub in s)
contains(s, sub) ==
    \E i \in 1..(Len(s) - Len(sub) + 1) : SubSeq(s, i, i + Len(sub) - 1) = sub

(***************************************************************************)
(* Axes.home(cmd, kwargs).  The keywords the caller leaves out take the    *)
(* defaults of lines 317-323.                                              *)
(*   'go'  : HOME1, ARM1, GH.                                              *)
(*   'set' : HOME<armed>(<edg>,<typ>,<vel>,<acc>,<mode>), where <vel> is   *)
(*           '+'+str(vel) if vel > 0 and '-'+str(vel) otherwise.           *)
(*   'get' : HOME, and the second line of the reply is taken apart:        *)
(*           st[1] and ans[0..5] raise IndexError when missing, and so     *)
(*           does the [1] after the split on 'V+', 'V-' or 'A'.            *)
(***************************************************************************)
homeDefaults ==
    [mode |-> 0, vel |-> 10, acc |-> 10, edg |-> "+", typ |-> 0, armed |-> 1]

homeKwargs(kwargs) ==
    [k \in DOMAIN homeDefaults |->
        IF k \in DOMAIN kwargs THEN kwargs[k] ELSE homeDefaults[k]]

\* home as it would sign the velocity from its magnitude
homeVel_abs(vel) ==
    IF vel > 0 THEN <<"+">> \o str(vel) ELSE <<"-">> \o str(-vel)

homeVel(vel) ==
    IF vel > 0 THEN <<"+">> \o str(vel) ELSE <<"-">> \o str(vel)

homeSetCommand(kw) ==
    <<"H", "O", "M", "E">> \o str(kw.armed) \o <<"(", kw.edg, ",">>
        \o str(kw.typ) \o <<",">> \o homeVel(kw.vel) \o <<",">>
        \o str(kw.acc) \o <<",">> \o str(kw.mode) \o <<")">>

homeGoCommands ==
    << <<"H", "O", "M", "E", "1">>, <<"A", "R", "M", "1">>, <<"G", "H">> >>

homeCommands(cmd, kwargs) ==
    CASE cmd = "get" -> << <<"H", "O", "M", "E">> >>
      [] cmd = "set" -> << homeSetCommand(homeKwargs(kwargs)) >>
      [] cmd = "go"  -> homeGoCommands
      [] OTHER -> << >>

\* the parsing of the answer to HOME
homeGetResult(reply) ==
    IF Len(reply) < 2 THEN "IndexError"
    ELSE LET ans == split(reply[2], " ")
         IN  IF Len(ans) < 4 THEN "IndexError"
             ELSE IF contains(ans[4], <<"+">>) /\ ~contains(ans[4], <<"V", "+">>)
                  THEN "IndexError"
             ELSE IF ~contains(ans[4], <<"+">>)
                     /\ ~contains(ans[4], <<"V", "-">>)
                  THEN "IndexError"
             ELSE IF Len(ans) < 5 THEN "IndexError"
             ELSE IF ~contains(ans[5], <<"A">>) THEN "IndexError"
             ELSE IF Len(ans) < 6 THEN "IndexError"
             ELSE "ok"

homeTraffic(a, cmd, kwargs, reply, fault) ==
    LET cmds == homeCommands(cmd, kwargs)
    IN  comAll(a, cmds, [i \in 1..Len(cmds) |-> reply], fault, 1, <<>>)

homeResult(cmd, kwargs, reply, fault) ==
    IF Raises(fault, Len(homeCommands(cmd, kwargs))) THEN "SerialException"
    ELSE IF cmd = "get" THEN homeGetResult(reply)
    ELSE "ok"

home(a, cmd, kwargs, reply, fault) ==
    /\ ser' = homeTraffic(a, cmd, kwargs, reply, fault)
    /\ unread' = Outstanding(unread, ser')
    /\ call' = [op |-> "home", axis |-> a, arg |-> [cmd |-> cmd, kwargs |-> kwargs],
                fault |-> fault,
                result |-> homeResult(cmd, kwargs, reply, fault), out |-> <<>>]
    /\ ncalls' = ncalls + 1
    /\ UNCHANGED <<lprofile, status, usrflt, drvflt>>

(***************************************************************************)
(* Axes.homeor(): HOME<id>, ARM<id>, GH.                                   *)
(***************************************************************************)
\* homeor as it would write the commands of home('go')
homeorCommands_one(a) == homeGoCommands

homeorCommands(a) ==
    << <<"H", "O", "M", "E">> \o str(a), <<"A", "R", "M">> \o str(a),
       <<"G", "H">> >>

homeorTraffic(a, fault) ==
    comAll(a, homeorCommands(a), <<NoReply, NoReply, NoReply>>, fault, 1, <<>>)

homeor(a, fault) ==
    /\ ser' = homeorTraffic(a, fault)
    /\ unread' = Outstanding(unread, ser')
    /\ call' = [op |-> "homeor", axis |-> a, arg |-> 0, fault |-> fault,
                result |-> IF Raises(fault, 3) THEN "SerialException" ELSE "ok",
                out |-> <<>>]
    /\ ncalls' = ncalls + 1
    /\ UNCHANGED <<lprofile, status, usrflt, drvflt>>

(***************************************************************************)
(* Axes.getvar(lvar): for each variable of lvar, or of all the keys of     *)
(* svar when lvar is empty, R(<var>) is exchanged and the description of   *)
(* the variable and the second line of the reply are printed: a variable   *)
(* missing from svar raises KeyError, a reply of less than two lines       *)
(* raises IndexError, either after the exchange.  A variable is a pair of  *)
(* characters.  silentAt is the exchange the controller leaves unanswered  *)
(* (0: none).                                                              *)
(***************************************************************************)
svar ==
    { <<"B", "U">>, <<"C", "Q">>, <<"D", "F">>, <<"E", "I">>, <<"E", "O">>,
      <<"E", "P">>, <<"E", "R">>, <<"E", "X">>, <<"I", "N">>, <<"I", "P">>,
      <<"I", "T">>, <<"M", "C">>, <<"M", "R">>, <<"M", "S">>, <<"M", "V">>,
      <<"P", "A">>, <<"P", "E">>, <<"P", "I">>, <<"R", "B">>, <<"R", "M">>,
      <<"R", "V">>, <<"S", "N">>, <<"S", "T">>, <<"U", "F">> }

\* svar.keys(): the keys in an order the dictionary chooses
RECURSIVE keysFrom(_)
keysFrom(S) ==
    IF S = {} THEN <<>>
    ELSE LET x == CHOOSE y \in S : TRUE IN <<x>> \o keysFrom(S \ {x})

svarKeys == keysFrom(svar)

getvarCommand(var) == <<"R", "(">> \o var \o <<")">>

\* what the controller answers to R(<var>): the echo and a value line
getvarReply(a, var) ==
    << str(a) \o getvarCommand(var) \o CRLF, <<"*", "0">> \o CRLF >>

RECURSIVE getvarLoop(_, _, _, _, _, _)
getvarLoop(a, lvar, i, silentAt, fault, st) ==
    IF i > Len(lvar) THEN st
    ELSE IF fault.at = i
    THEN [st EXCEPT !.log = comRaises(a, getvarCommand(lvar[i]), fault.kind, @),
                    !.result = "SerialException"]
    ELSE LET reply == IF silentAt = i THEN <<>> ELSE getvarReply(a, lvar[i])
             st1 == [st EXCEPT !.log = com(a, getvarCommand(lvar[i]), reply, @)]
         IN  IF lvar[i] \notin svar THEN [st1 EXCEPT !.result = "KeyError"]
             ELSE IF Len(reply) < 2 THEN [st1 EXCEPT !.result = "IndexError"]
             ELSE getvarLoop(a, lvar, i + 1, silentAt, fault,
                             [st1 EXCEPT !.out = Append(@, lvar[i])])

getvarResult(a, lvar, silentAt, fault) ==
    getvarLoop(a, IF lvar = <<>> THEN svarKeys ELSE lvar, 1, silentAt, fault,
               [log |-> <<>>, out |-> <<>>, result |-> "ok"])

getvar(a, lvar, silentAt, fault) ==
    \E r \in {getvarResult(a, lvar, silentAt, fault)} :
        /\ ser' = r.log
        /\ unread' = Outstanding(unread, ser')
        /\ call' = [op |-> "getvar", axis |-> a, arg |-> lvar, fault |-> fault,
                    result |-> r.result, out |-> r.out]
        /\ ncalls' = ncalls + 1
        /\ UNCHANGED <<lprofile, status, usrflt, drvflt>>

(***************************************************************************)
(* Axes.reset(): OFF, then ON.                                             *)
(***************************************************************************)
resetCommands == << <<"O", "F", "F">>, <<"O", "N">> >>

\* reset as it would go on to ON after a failed OFF exchange
resetTraffic_goeson(a, fault) ==
    IF fault.at = 1
    THEN com(a, resetCommands[2], NoReply,
             comRaises(a, resetCommands[1], fault.kind, <<>>))
    ELSE comAll(a, resetCommands, <<NoReply, NoReply>>, fault, 1, <<>>)

resetTraffic(a, fault) ==
    comAll(a, resetCommands, <<NoReply, NoReply>>, fault, 1, <<>>)

reset(a, fault) ==
    /\ ser' = resetTraffic(a, fault)
    /\ unread' = Outstanding(unread, ser')
    /\ call' = [op |-> "reset", axis |-> a, arg |-> 0, fault |-> fault,
                result |-> IF Raises(fault, 2) THEN "SerialException" ELSE "ok",
                out |-> <<>>]
    /\ ncalls' = ncalls + 1
    /\ UNCHANGED <<lprofile, status, usrflt, drvflt>>

(***************************************************************************)
(* Axes.mvpro(id_pro): USE(<id_pro>), then G.                              *)
(***************************************************************************)
mvproCommands(id_pro) ==
    << <<"U", "S", "E", "(">> \o str(id_pro) \o <<")">>, <<"G">> >>

mvproTraffic(a, id_pro, fault) ==
    comAll(a, mvproCommands(id_pro), <<NoReply, NoReply>>, fault, 1, <<>>)

mvpro(a, id_pro, fault) ==
    /\ ser' = mvproTraffic(a, id_pro, fault)
    /\ unread' = Outstanding(unread, ser')
    /\ call' = [op |-> "mvpro", axis |-> a, arg |-> id_pro, fault |-> fault,
                result |-> IF Raises(fault, 2) THEN "SerialException" ELSE "ok",
                out |-> <<>>]
    /\ ncalls' = ncalls + 1
    /\ UNCHANGED <<lprofile, status, usrflt, drvflt>>

(***************************************************************************)
(* The loops of Axes.reg from entry n = k*4+l on: each digit is stored in  *)
(* the array chosen by typ, then the description of a set bit is printed;  *)
(* a code missing from the table raises KeyError there, after the store    *)
(* and before the entries that follow.  st holds the three arrays and the  *)
(* codes printed so far.                                                   *)
(***************************************************************************)
RECURSIVE regLoop(_, _, _, _)
regLoop(buf, typ, n, st) ==
    IF n = 32 THEN [st EXCEPT !.result = "ok"]
    ELSE LET k == n \div 4
             l == n % 4
         IN  IF k + 1 > Len(buf) \/ l + 1 > Len(buf[k + 1])
             THEN [st EXCEPT !.result = "IndexError"]
             ELSE LET val == eval(buf[k + 1][l + 1])
                      table == CASE typ = "ST" -> dstatus
                                 [] typ = "UF" -> dusrflt
                                 [] typ = "DF" -> ddrvflt
                                 [] OTHER -> {}
                      st1 == CASE typ = "ST" -> [st EXCEPT !.status[n + 1] = val]
                               [] typ = "UF" -> [st EXCEPT !.usrflt[n + 1] = val]
                               [] typ = "DF" -> [st EXCEPT !.drvflt[n + 1] = val]
                               [] OTHER -> st
                  IN  IF val # 0 /\ typ \in {"ST", "UF", "DF"}
                      THEN IF n + 1 \in table
                           THEN regLoop(buf, typ, n + 1,
                                        [st1 EXCEPT !.out = Append(@, n + 1)])
                           ELSE [st1 EXCEPT !.result = "KeyError"]
                      ELSE regLoop(buf, typ, n + 1, st1)

(***************************************************************************)
(* Axes.reg(typ): com('R', '('+typ+')') passes the register code as the    *)
(* verbose flag of com, so the command written is R; the second reply      *)
(* line is stripped of '*' and CR LF, split on '_' and stored digit by     *)
(* digit.                                                                  *)
(***************************************************************************)
regTraffic(a, typ, reply, fault) ==
    comAll(a, <<<<"R">>>>, <<reply>>, fault, 1, <<>>)

regParse(line) == split(replaceCRLF(replace(line, "*")), "_")

regResult(a, typ, reply, fault) ==
    LET st0 == [status |-> status[a], usrflt |-> usrflt[a],
                drvflt |-> drvflt[a], out |-> <<>>, result |-> "ok"]
    IN  IF Raises(fault, 1) THEN [st0 EXCEPT !.result = "SerialException"]
        ELSE IF Len(reply) < 2 THEN [st0 EXCEPT !.result = "IndexError"]
        ELSE LET buf == regParse(reply[2])
             IN  regLoop(buf, typ, 0, st0)

\* reg as it would be were the three arrays attributes of the class, shared
\* by the axes
reg_shared(a, typ, reply, fault) ==
    \E r \in {regResult(a, typ, reply, fault)} :
        /\ ser' = regTraffic(a, typ, reply, fault)
        /\ unread' = Outstanding(unread, ser')
        /\ status' = [b \in AxisIds |-> r.status]
        /\ usrflt' = [b \in AxisIds |-> r.usrflt]
        /\ drvflt' = [b \in AxisIds |-> r.drvflt]
        /\ call' = [op |-> "reg", axis |-> a, arg |-> typ, fault |-> fault,
                    result |-> r.result, out |-> r.out]
        /\ ncalls' = ncalls + 1
        /\ UNCHANGED lprofile

reg(a, typ, reply, fault) ==
    \E r \in {regResult(a, typ, reply, fault)} :
        /\ ser' = regTraffic(a, typ, reply, fault)
        /\ unread' = Outstanding(unread, ser')
        /\ status' = [status EXCEPT ![a] = r.status]
        /\ usrflt' = [usrflt EXCEPT ![a] = r.usrflt]
        /\ drvflt' = [drvflt EXCEPT ![a] = r.drvflt]
        /\ call' = [op |-> "reg", axis |-> a, arg |-> typ, fault |-> fault,
                    result |-> r.result, out |-> r.out]
        /\ ncalls' = ncalls + 1
        /\ UNCHANGED lprofile

(***************************************************************************)
(* What the controller answers to a register read: the echoed command,     *)
(* then 8 groups of 4 digits between '*'s, separated by '_', ended by      *)
(* CR LF; or nothing at all within the read timeout.                       *)
(***************************************************************************)
RegGroup(bits, k) ==
    [l \in 1..4 |-> IF (k * 4 + l - 1) \in bits THEN "1" ELSE "0"]

RECURSIVE RegGroups(_, _)
RegGroups(bits, k) ==
    IF k = 7 THEN RegGroup(bits, k)
    ELSE RegGroup(bits, k) \o <<"_">> \o RegGroups(bits, k + 1)

RegLine(bits) == <<"*">> \o RegGroups(bits, 0) \o <<"*">> \o CRLF

RegReply(a, bits) == <<str(a) \o <<"R">> \o CRLF, RegLine(bits)>>

\* the registers the controller reports: no bit set, or any one bit set
RegPatterns == {{}} \cup {{i} : i \in 0..31}

\* the replies axis a may get to a register read
RegReplies == [a \in AxisIds |-> {RegReply(a, bits) : bits \in RegPatterns}]

RegTyps == {"ST", "UF", "DF"}

\* the axes SpecReg reads registers of
RegAxes == {1, 2}

(***************************************************************************)
(* Arithmetic of Profile.  The parameters are Python ints; every quotient  *)
(* taken after a multiplication by 1.0, and all that is computed from it,  *)
(* is an IEEE 754 double: the exact result of each operation rounded to    *)
(* 53 significant bits, ties to even.  A natural number of any size is a   *)
(* sequence of limbs in base 2^15, the lowest first, without leading       *)
(* zeros; a double is [s, m, e] standing for (-1)^s * m * 2^e with         *)
(* 2^52 <= m < 2^53, or m = 0.  The exponent range of doubles is not       *)
(* modelled: the values of a profile stay far inside it.                   *)
(***************************************************************************)
LimbBits == 15
Base == 2^LimbBits
MantBits == 53

BigNorm(x) ==
    IF \A i \in 1..Len(x) : x[i] = 0 THEN <<>>
    ELSE SubSeq(x, 1, CHOOSE k \in 1..Len(x) :
                          x[k] # 0 /\ \A i \in (k + 1)..Len(x) : x[i] = 0)

RECURSIVE BigFromNat(_)
BigFromNat(n) ==
    IF n = 0 THEN <<>> ELSE <<n % Base>> \o BigFromNat(n \div Base)

Limb(x, i) == IF i <= Len(x) THEN x[i] ELSE 0

RECURSIVE BigAddFrom(_, _, _, _)
BigAddFrom(x, y, i, c) ==
    IF i > Len(x) /\ i > Len(y) THEN (IF c = 0 THEN <<>> ELSE <<c>>)
    ELSE LET s == Limb(x, i) + Limb(y, i) + c
         IN  <<s % Base>> \o BigAddFrom(x, y, i + 1, s \div Base)

BigAdd(x, y) == BigAddFrom(x, y, 1, 0)

\* x - y for x >= y
RECURSIVE BigSubFrom(_, _, _, _)
BigSubFrom(x, y, i, b) ==
    IF i > Len(x) THEN <<>>
    ELSE LET d == x[i] - Limb(y, i) - b
         IN  IF d < 0 THEN <<d + Base>> \o BigSubFrom(x, y, i + 1, 1)
             ELSE <<d>> \o BigSubFrom(x, y, i + 1, 0)

BigSub(x, y) == BigNorm(BigSubFrom(x, y, 1, 0))

\* -1, 0 or 1 as x < y, x = y or x > y
BigCmp(x, y) ==
    IF Len(x) # Len(y) THEN (IF Len(x) < Len(y) THEN -1 ELSE 1)
    ELSE IF x = y THEN 0
    ELSE LET k == CHOOSE i \in 1..Len(x) :
                      x[i] # y[i] /\ \A j \in (i + 1)..Len(x) : x[j] = y[j]
         IN  IF x[k] < y[k] THEN -1 ELSE 1

RECURSIVE BigMulSmallFrom(_, _, _, _)
BigMulSmallFrom(x, k, i, c) ==
    IF i > Len(x) THEN (IF c = 0 THEN <<>> ELSE <<c>>)
    ELSE LET p == x[i] * k + c
         IN  <<p % Base>> \o BigMulSmallFrom(x, k, i + 1, p \div Base)

\* x * k for k < 2^15
BigMulSmall(x, k) == BigNorm(BigMulSmallFrom(x, k, 1, 0))

RECURSIVE BigMulFrom(_, _, _)
BigMulFrom(x, y, j) ==
    IF j > Len(y) THEN <<>>
    ELSE BigAdd(BigMulSmall(x, y[j]), <<0>> \o BigMulFrom(x, y, j + 1))

BigMul(x, y) == BigNorm(BigMulFrom(x, y, 1))

\* x * 2^k
BigShl(x, k) ==
    IF x = <<>> THEN <<>>
    ELSE [i \in 1..(k \div LimbBits) |-> 0] \o BigMulSmall(x, 2^(k % LimbBits))

\* x div 2^k
BigShr(x, k) ==
    LET q == k \div LimbBits
        d == 2^(k % LimbBits)
        y == IF q >= Len(x) THEN <<>> ELSE SubSeq(x, q + 1, Len(x))
    IN  BigNorm([i \in 1..Len(y) |->
                    (y[i] \div d) + (Limb(y, i + 1) % d) * (Base \div d)])

\* x mod 2^k
BigLow(x, k) ==
    LET q == k \div LimbBits
        d == 2^(k % LimbBits)
    IN  IF q >= Len(x) THEN x
        ELSE BigNorm(SubSeq(x, 1, q) \o <<x[q + 1] % d>>)

RECURSIVE BitLen(_)
BitLen(n) == IF n = 0 THEN 0 ELSE 1 + BitLen(n \div 2)

BigBitLen(x) ==
    IF x = <<>> THEN 0 ELSE LimbBits * (Len(x) - 1) + BitLen(x[Len(x)])

BigBit(x, i) == (Limb(x, i \div LimbBits + 1) \div 2^(i % LimbBits)) % 2

BigOdd(x) == x # <<>> /\ x[1] % 2 = 1

\* the largest d + c with c < 2^(k+1) and y * (d + c) <= x, given y * d <= x
RECURSIVE BigDigitFrom(_, _, _, _)
BigDigitFrom(x, y, k, d) ==
    IF k < 0 THEN d
    ELSE IF BigCmp(BigMulSmall(y, d + 2^k), x) <= 0
         THEN BigDigitFrom(x, y, k - 1, d + 2^k)
         ELSE BigDigitFrom(x, y, k - 1, d)

\* one step of the long division of x by y > 0: limb i of x is brought down
\* to the remainder r < y, and the next limb of the quotient is found
BigDivStep(x, y, i, q, r) ==
    LET r2 == BigNorm(<<x[i]>> \o r)
        d  == BigDigitFrom(r2, y, LimbBits - 1, 0)
    IN  [q |-> <<d>> \o q, r |-> BigSub(r2, BigMulSmall(y, d))]

\* quotient and remainder of x by y > 0, from limb i of x down
RECURSIVE BigDivFrom(_, _, _, _, _)
BigDivFrom(x, y, i, q, r) ==
    IF i < 1 THEN [q |-> BigNorm(q), r |-> r]
    ELSE CHOOSE res \in {BigDivFrom(x, y, i - 1, st.q, st.r) :
                            st \in {BigDivStep(x, y, i, q, r)}} : TRUE

BigDivMod(x, y) == BigDivFrom(x, y, Len(x), <<>>, <<>>)

FZero == [s |-> 0, m |-> <<>>, e |-> 0]

\* the double nearest to (-1)^s * (n + f) * 2^e, ties to even, where f is 0,
\* or lies strictly between 0 and 1 when sticky
FRound(s, n, e, sticky) ==
    LET L == BigBitLen(n)
    IN  IF L = 0 THEN FZero
        ELSE IF L <= MantBits
        THEN [s |-> s, m |-> BigShl(n, MantBits - L), e |-> e - (MantBits - L)]
        ELSE LET d   == L - MantBits
                 q   == BigShr(n, d)
                 c   == BigCmp(BigLow(n, d), BigShl(<<1>>, d - 1))
                 up  == c = 1 \/ (c = 0 /\ (sticky \/ BigOdd(q)))
                 q1  == IF up THEN BigAdd(q, <<1>>) ELSE q
             IN  IF BigBitLen(q1) > MantBits
                 THEN [s |-> s, m |-> BigShr(q1, 1), e |-> e + d + 1]
                 ELSE [s |-> s, m |-> q1, e |-> e + d]

\* float(n) for a Python int n
FInt(n) ==
    FRound(IF n < 0 THEN 1 ELSE 0, BigFromNat(IF n < 0 THEN -n ELSE n), 0, FALSE)

FNeg(a) == IF a.m = <<>> THEN a ELSE [a EXCEPT !.s = 1 - a.s]

FAdd(a, b) ==
    IF a.m = <<>> THEN b
    ELSE IF b.m = <<>> THEN a
    ELSE LET e  == IF a.e < b.e THEN a.e ELSE b.e
             na == BigShl(a.m, a.e - e)
             nb == BigShl(b.m, b.e - e)
             c  == BigCmp(na, nb)
         IN  IF a.s = b.s THEN FRound(a.s, BigAdd(na, nb), e, FALSE)
             ELSE IF c = 0 THEN FZero
             ELSE IF c = 1 THEN FRound(a.s, BigSub(na, nb), e, FALSE)
             ELSE FRound(b.s, BigSub(nb, na), e, FALSE)

FSub(a, b) == FAdd(a, FNeg(b))

FMul(a, b) ==
    IF a.m = <<>> \/ b.m = <<>> THEN FZero
    ELSE FRound((a.s + b.s) % 2, BigMul(a.m, b.m), a.e + b.e, FALSE)

\* a / b for b # 0: 56 more bits of a make the quotient longer than 53 bits
FDiv(a, b) ==
    IF a.m = <<>> THEN FZero
    ELSE LET qr == BigDivMod(BigShl(a.m, MantBits + 3), b.m)
         IN  FRound((a.s + b.s) % 2, qr.q, a.e - b.e - (MantBits + 3),
                    qr.r # <<>>)

FIsNeg(a) == a.s = 1 /\ a.m # <<>>

FLt(a, b) == FIsNeg(FSub(a, b))

FGe(a, b) == ~FLt(a, b)

(***************************************************************************)
(* Profile.__init__: the parameters kept by a Profile, each taken from     *)
(* its keyword arguments or else from the defaults of Profile; a keyword   *)
(* Profile does not know is ignored.                                       *)
(***************************************************************************)
ProfileDefaults ==
    [num |-> 1, aa |-> 200, ad |-> 200, dstep |-> 12800, vmax |-> 15,
     vs |-> 0, spr |-> 4000, N |-> 100]

Profile(kwargs) ==
    [k \in DOMAIN ProfileDefaults |->
        IF k \in DOMAIN kwargs THEN kwargs[k] ELSE ProfileDefaults[k]]

\* Profile.cmd as it would be with dstep and vmax in each other's place
ProfileCmd_swapped(p) ==
    <<"P", "R", "O", "F", "I", "L", "E">> \o str(p.num)
        \o <<"(">> \o str(p.aa) \o <<",">> \o str(p.ad)
        \o <<",">> \o str(p.vmax) \o <<",">> \o str(p.dstep)
        \o <<",">> \o str(p.vs) \o <<")">>

\* Profile.cmd
ProfileCmd(p) ==
    <<"P", "R", "O", "F", "I", "L", "E">> \o str(p.num)
        \o <<"(">> \o str(p.aa) \o <<",">> \o str(p.ad)
        \o <<",">> \o str(p.dstep) \o <<",">> \o str(p.vmax)
        \o <<",">> \o str(p.vs) \o <<")">>

\* Profile.T: drev = dstep/(1.0*spr), and vmax**2/aa is a quotient of ints,
\* rounded down
ProfileT(p) ==
    FDiv(FAdd(FDiv(FInt(p.dstep), FInt(p.spr)),
              FInt((p.vmax * p.vmax) \div p.aa)),
         FInt(p.vmax))

\* t1: the end of the acceleration phase
Profilet1(p) == FDiv(FInt(p.vmax), FInt(p.aa))

\* t2: the start of the deceleration phase
Profilet2(p, T) == FSub(T, FDiv(FInt(p.vmax), FInt(p.ad)))

\* numpy.linspace(0, stop, N) for N >= 2: the multiples of stop/(N-1), the
\* last sample being stop itself
linspace(stop, N) ==
    CHOOSE y \in {[i \in 1..N |-> IF i = N THEN stop
                                  ELSE FMul(FInt(i - 1), step)] :
                    step \in {FDiv(stop, FInt(N - 1))}} : TRUE

\* Profile.v as it would be were the acceleration ramp written last
ProfileV_ramplast(p, t, t1, t2) ==
    CHOOSE v \in {[i \in 1..p.N |->
                     IF FLt(t[i], t1) THEN FMul(t[i], FInt(p.aa))
                     ELSE IF FGe(t[i], t2)
                     THEN FAdd(FMul(FNeg(t[i]), FInt(p.ad)), c)
                     ELSE FInt(p.vmax)] :
                    c \in {FAdd(FInt(p.vmax), FMul(FInt(p.ad), t2))}} : TRUE

\* Profile.v: vmax, then t*aa where t < t1, then -t*ad+(vmax+ad*t2) where
\* t >= t2, the later assignment overwriting the earlier
ProfileV(p, t, t1, t2) ==
    CHOOSE v \in {[i \in 1..p.N |->
                     IF FGe(t[i], t2)
                     THEN FAdd(FMul(FNeg(t[i]), FInt(p.ad)), c)
                     ELSE IF FLt(t[i], t1) THEN FMul(t[i], FInt(p.aa))
                     ELSE FInt(p.vmax)] :
                    c \in {FAdd(FInt(p.vmax), FMul(FInt(p.ad), t2))}} : TRUE

\* numpy.cumsum(v)[lo..hi], acc being the sum of v[1..lo-1]: each sum is the
\* sum before it plus the next sample
RECURSIVE cumsum(_, _, _, _)
cumsum(v, lo, hi, acc) ==
    IF lo = hi THEN <<FAdd(acc, v[lo])>>
    ELSE CHOOSE r \in {left \o cumsum(v, (lo + hi) \div 2 + 1, hi,
                                      left[Len(left)]) :
                         left \in {cumsum(v, lo, (lo + hi) \div 2, acc)}} :
             TRUE

\* Profile.ds = cumsum(v)*(t[1]-t[0])*spr
ProfileDs(p, t, v) ==
    CHOOSE ds \in {[i \in 1..p.N |-> FMul(FMul(cs[i], dt), FInt(p.spr))] :
                     cs \in {cumsum(v, 1, p.N, FZero)},
                     dt \in {FSub(t[2], t[1])}} : TRUE

ProfileCurve(p, T, t1, t2, t) ==
    CHOOSE r \in {[T |-> T, t1 |-> t1, t2 |-> t2, t |-> t, v |-> v,
                   ds |-> ProfileDs(p, t, v)] :
                    v \in {ProfileV(p, t, t1, t2)}} : TRUE

ProfileTimes(p, T) ==
    CHOOSE r \in {ProfileCurve(p, T, t1, t2, t) :
                    t1 \in {Profilet1(p)}, t2 \in {Profilet2(p, T)},
                    t \in {linspace(T, p.N)}} : TRUE

\* the attributes T, t, v, ds of a Profile, with t1 and t2
ProfileAttributes(p) ==
    CHOOSE r \in {ProfileTimes(p, T) : T \in {ProfileT(p)}} : TRUE

\* Profile(kwargs): a call of the constructor, which uses no port
NewProfile(kwargs) ==
    \E p \in {Profile(kwargs)} :
        /\ call' = [op |-> "Profile", axis |-> 0, arg |-> kwargs,
                    fault |-> NoFault, result |-> "ok",
                    out |-> [p |-> p, cmd |-> ProfileCmd(p),
                             curve |-> ProfileAttributes(p)]]
        /\ ser' = <<>>
        /\ UNCHANGED <<lprofile, status, usrflt, drvflt, unread, ncalls>>

\* the slots of the controller: add_profile appends while len(lprofile) < 8
MaxProfiles == 8

(***************************************************************************)
(* Axes.add_profile: the num of the keyword arguments is overwritten with  *)
(* len(lprofile)+1; the profile is built and appended only while the list  *)
(* holds fewer than 8; otherwise nothing happens.                          *)
(***************************************************************************)
\* add_profile with the test off by one: len(lprofile) <= 8
add_profileList_nine(lst, kwargs) ==
    LET num == Len(lst)
        kw  == [kwargs EXCEPT !.num = num + 1]
    IN  IF Len(lst) <= MaxProfiles THEN Append(lst, Profile(kw)) ELSE lst

\* add_profile keeping a num the caller passed
add_profileList_callernum(lst, kwargs) ==
    LET num == Len(lst)
        kw  == IF kwargs.num = 0 THEN [kwargs EXCEPT !.num = num + 1] ELSE kwargs
    IN  IF Len(lst) < MaxProfiles THEN Append(lst, Profile(kw)) ELSE lst

add_profileList(lst, kwargs) ==
    LET num == Len(lst)
        kw  == [kwargs EXCEPT !.num = num + 1]
    IN  IF Len(lst) < MaxProfiles THEN Append(lst, Profile(kw)) ELSE lst

add_profile(a, kwargs) ==
    /\ lprofile' = [lprofile EXCEPT ![a] = add_profileList(lprofile[a], kwargs)]
    /\ ser' = <<>>
    /\ call' = [op |-> "add_profile", axis |-> a, arg |-> kwargs,
                fault |-> NoFault, result |-> "ok", out |-> <<>>]
    /\ ncalls' = ncalls + 1
    /\ UNCHANGED <<status, usrflt, drvflt, unread>>

(***************************************************************************)
(* list.pop(i): a negative i counts from the end of the list; IndexError   *)
(* when the list is empty or i is outside -len..len-1.                     *)
(***************************************************************************)
popIndex(lst, i) == IF i < 0 THEN i + Len(lst) ELSE i

popRaises(lst, i) == popIndex(lst, i) < 0 \/ popIndex(lst, i) >= Len(lst)

pop(lst, i) ==
    LET j == popIndex(lst, i)
    IN  SubSeq(lst, 1, j) \o SubSeq(lst, j + 2, Len(lst))

(***************************************************************************)
(* Axes.del_profile(index): self.lprofile.pop(index-1).                    *)
(***************************************************************************)
del_profileList(lst, index) ==
    IF popRaises(lst, index - 1) THEN lst ELSE pop(lst, index - 1)

del_profileResult(lst, index) ==
    IF popRaises(lst, index - 1) THEN "IndexError" ELSE "ok"

del_profile(a, index) ==
    /\ lprofile' = [lprofile EXCEPT ![a] = del_profileList(lprofile[a], index)]
    /\ ser' = <<>>
    /\ call' = [op |-> "del_profile", axis |-> a, arg |-> index,
                fault |-> NoFault,
                result |-> del_profileResult(lprofile[a], index), out |-> <<>>]
    /\ ncalls' = ncalls + 1
    /\ UNCHANGED <<status, usrflt, drvflt, unread>>

(***************************************************************************)
(* Axes.set_profile(num): asserts num <= len(lprofile), then               *)
(* com(str(self._id)+'USE'+str(num)).                                      *)
(***************************************************************************)
\* set_profile asserting against the slots of the controller
set_profileAsserts_slots(lst, num) == num <= MaxProfiles

set_profileAsserts(lst, num) == num <= Len(lst)

set_profileTraffic(a, num, fault) ==
    comAll(a, <<str(a) \o <<"U", "S", "E">> \o str(num)>>, <<NoReply>>,
           fault, 1, <<>>)

set_profileResult(lst, num, fault) ==
    IF ~set_profileAsserts(lst, num) THEN "AssertionError"
    ELSE IF Raises(fault, 1) THEN "SerialException"
    ELSE "ok"

set_profile(a, num, fault) ==
    /\ ser' = IF set_profileAsserts(lprofile[a], num)
              THEN set_profileTraffic(a, num, fault) ELSE <<>>
    /\ unread' = Outstanding(unread, ser')
    /\ call' = [op |-> "set_profile", axis |-> a, arg |-> num,
                fault |-> fault,
                result |-> set_profileResult(lprofile[a], num, fault),
                out |-> <<>>]
    /\ ncalls' = ncalls + 1
    /\ UNCHANGED <<lprofile, status, usrflt, drvflt>>

\* what callers pass to add_profile: a num (0 when left out) and a dstep
AddKwargs == {[num |-> 0, dstep |-> 12800], [num |-> 5, dstep |-> 6400]}

\* the numbers del_profile and set_profile are called with
Indexes == (-MaxIndex)..(MaxProfiles + MaxIndex)

\* the axes SpecProfile manages the profiles of
ProfileAxes == {1}

(***************************************************************************)
(* Axes.__init__ for each axis of the Scanner; nothing has been called.    *)
(***************************************************************************)
Init ==
    /\ lprofile = [a \in AxisIds |-> <<>>]
    /\ status = [a \in AxisIds |-> Zeros32]
    /\ usrflt = [a \in AxisIds |-> Zeros32]
    /\ drvflt = [a \in AxisIds |-> Zeros32]
    /\ ser = <<>>
    /\ unread = FALSE
    /\ call = [op |-> "none", axis |-> 0, arg |-> 0, fault |-> NoFault,
               result |-> "ok", out |-> <<>>]
    /\ ncalls = 0

(***************************************************************************)
(* The callers: each step is one call of one method on one axis.           *)
(***************************************************************************)
MvCall ==
    /\ ncalls < MaxMoveCalls
    /\ \E a \in AxisIds, var \in Vars, fault \in Faults(2) : mv(a, var, fault)

\* the keywords home is called with: a velocity, or none
HomeKwargs == {[vel |-> x] : x \in (-MaxVel)..MaxVel} \cup {[edg |-> "-"]}

\* the answers to HOME: the echo and the settings, the echo and a line cut
\* short, or nothing
HomeSettings ==
    <<"1", " ", "+", " ", "0", " ", "V", "+", "1", "0", " ", "A", "1", "0",
      " ", "0">> \o CRLF

HomeReplies ==
    [a \in AxisIds |->
        { <<str(a) \o <<"H", "O", "M", "E">> \o CRLF, HomeSettings>>,
          <<str(a) \o <<"H", "O", "M", "E">> \o CRLF, SubSeq(HomeSettings, 1, 5)>>,
          <<>> }]

\* the lists getvar is called with: none, a known variable, a known and an
\* unknown one
Lvars == { <<>>, << <<"S", "T">> >>, << <<"P", "A">>, <<"X", "X">> >> }

HomeCall ==
    /\ ncalls < MaxMoveCalls
    /\ \E a \in AxisIds :
          \/ \E fault \in Faults(3) : home(a, "go", [edg |-> "-"], NoReply, fault)
          \/ \E kwargs \in HomeKwargs, fault \in Faults(1) :
                home(a, "set", kwargs, NoReply, fault)
          \/ \E reply \in HomeReplies[a], fault \in Faults(1) :
                home(a, "get", [edg |-> "-"], reply, fault)

HomeorCall ==
    /\ ncalls < MaxMoveCalls
    /\ \E a \in AxisIds, fault \in Faults(3) : homeor(a, fault)

ResetCall ==
    /\ ncalls < MaxMoveCalls
    /\ \E a \in AxisIds, fault \in Faults(2) : reset(a, fault)

MvproCall ==
    /\ ncalls < MaxMoveCalls
    /\ \E a \in AxisIds, id_pro \in 0..MaxIndex, fault \in Faults(2) :
          mvpro(a, id_pro, fault)

GetvarCall ==
    /\ ncalls < MaxMoveCalls
    /\ \E a \in AxisIds, lvar \in Lvars, silentAt \in 0..2,
          fault \in Faults(2) : getvar(a, lvar, silentAt, fault)

NextMove ==
    MvCall \/ HomeCall \/ HomeorCall \/ ResetCall \/ MvproCall \/ GetvarCall

SpecMove == Init /\ [][NextMove]_vars

AddProfileCall ==
    /\ ncalls < MaxProfileCalls
    /\ \E a \in ProfileAxes, kwargs \in AddKwargs : add_profile(a, kwargs)

DelProfileCall ==
    /\ ncalls < MaxProfileCalls
    /\ \E a \in ProfileAxes, index \in Indexes : del_profile(a, index)

SetProfileCall ==
    /\ ncalls < MaxProfileCalls
    /\ \E a \in ProfileAxes, num \in Indexes : set_profile(a, num, NoFault)

NextProfile == AddProfileCall \/ DelProfileCall \/ SetProfileCall

SpecProfile == Init /\ [][NextProfile]_vars

\* the controller answers the register read
RegCallAnswered ==
    /\ ncalls < MaxRegCalls
    /\ \E a \in RegAxes, typ \in RegTyps :
          \E reply \in RegReplies[a] : reg(a, typ, reply, NoFault)

\* the read times out: readlines returns no line
RegCallTimeout ==
    /\ ncalls < MaxRegCalls
    /\ \E a \in RegAxes, typ \in RegTyps : reg(a, typ, <<>>, NoFault)

NextReg == RegCallAnswered \/ RegCallTimeout

SpecReg == Init /\ [][NextReg]_vars

(***************************************************************************)
(* The callers of SpecProfileMath: Profile is constructed with no          *)
(* argument, or with parameters that give long and short travels.          *)
(***************************************************************************)
\* a call without keyword arguments
NoKwargs == [k \in {} |-> 0]

ProfileKwargs ==
    {[aa |-> aa, ad |-> ad, dstep |-> dstep, vmax |-> vmax, N |-> N] :
        aa \in {2, 200}, ad \in {3, 200}, dstep \in {0, 400, 12800},
        vmax \in {1, 15}, N \in 2..MaxN}
    \cup {[num |-> 7, vs |-> 1], NoKwargs}

\* the object under study is constructed once
ProfileCall ==
    /\ call.op = "none"
    /\ \E kwargs \in ProfileKwargs : NewProfile(kwargs)

NextProfileMath == ProfileCall

SpecProfileMath == Init /\ [][NextProfileMath]_vars

(***************************************************************************)
(* The callers of SpecTransport: all the methods that exchange a command,  *)
(* on all the axes of the Scanner, which share the port.                   *)
(***************************************************************************)
\* the registers the controller reports here: no bit set, bit 0 set, or
\* bit 9 set, whose code 10 is in no table but dusrflt
TransportPatterns == {{}, {0}, {9}}

TransportRegReplies ==
    [a \in AxisIds |->
        {RegReply(a, bits) : bits \in TransportPatterns} \cup {<<>>}]

TransportMv ==
    /\ ncalls < MaxTransportCalls
    /\ \E a \in AxisIds, fault \in Faults(2) : mv(a, [n |-> 1, d |-> 1], fault)

TransportHome ==
    /\ ncalls < MaxTransportCalls
    /\ \E a \in AxisIds :
          \/ \E fault \in Faults(3) : home(a, "go", [edg |-> "-"], NoReply, fault)
          \/ \E fault \in Faults(1) : home(a, "set", [vel |-> -1], NoReply, fault)
          \/ \E reply \in HomeReplies[a], fault \in Faults(1) :
                home(a, "get", [edg |-> "-"], reply, fault)

TransportHomeor ==
    /\ ncalls < MaxTransportCalls
    /\ \E a \in AxisIds, fault \in Faults(3) : homeor(a, fault)

TransportReset ==
    /\ ncalls < MaxTransportCalls
    /\ \E a \in AxisIds, fault \in Faults(2) : reset(a, fault)

TransportMvpro ==
    /\ ncalls < MaxTransportCalls
    /\ \E a \in AxisIds, fault \in Faults(2) : mvpro(a, 1, fault)

TransportGetvar ==
    /\ ncalls < MaxTransportCalls
    /\ \E a \in AxisIds, lvar \in Lvars, silentAt \in 0..1,
          fault \in Faults(2) : getvar(a, lvar, silentAt, fault)

TransportSetProfile ==
    /\ ncalls < MaxTransportCalls
    /\ \E a \in AxisIds, num \in 0..1, fault \in Faults(1) :
          set_profile(a, num, fault)

TransportReg ==
    /\ ncalls < MaxTransportCalls
    /\ \E a \in AxisIds, typ \in RegTyps :
          \E reply \in TransportRegReplies[a], fault \in Faults(1) :
              reg(a, typ, reply, fault)

NextTransport ==
    \/ TransportMv
    \/ TransportHome
    \/ TransportHomeor
    \/ TransportReset
    \/ TransportMvpro
    \/ TransportGetvar
    \/ TransportSetProfile
    \/ TransportReg

SpecTransport == Init /\ [][NextTransport]_vars

(***************************************************************************)
(* Properties of mv, checked under SpecMove.                               *)
(***************************************************************************)
\* the integers within one step of var*scale on axis a, on the side of zero
\* or away from it
StepCounts(a, var) ==
    LET num == var.n * scale[a].n
        den == var.d * scale[a].d
        q   == num \div den
    IN  {k \in {q - 1, q, q + 1} :
            (k * den - num) < den /\ (num - k * den) < den}

\* C1: mv(var) on the axis with id i writes exactly two commands, in this
\* order: <i>D<nstep>\r\n with nstep a step count of var*scale, then
\* <i>G\r\n, and no third command; mv(10) at scale 12800 writes D128000.
C1_MvWritesDThenG ==
    (call.op = "mv" /\ call.fault = NoFault) =>
        /\ Len(Written(ser)) = 2
        /\ \E k \in StepCounts(call.axis, call.arg) :
              Written(ser)[1] = str(call.axis) \o <<"D">> \o str(k) \o CRLF
        /\ Written(ser)[2] = str(call.axis) \o <<"G">> \o CRLF
        /\ (call.axis = 1 /\ call.arg = [n |-> 10, d |-> 1]) =>
              Written(ser)[1] =
                  <<"1", "D", "1", "2", "8", "0", "0", "0", "\r", "\n">>

\* mv(10) was called on axis 1 (scale 12800) and has written its commands
C1_Witness ==
    /\ call.op = "mv"
    /\ call.axis = 1
    /\ call.arg = [n |-> 10, d |-> 1]
    /\ Len(Written(ser)) = 2

(***************************************************************************)
(* Properties of reg, checked under SpecReg.                               *)
(***************************************************************************)
TypChars(typ) ==
    CASE typ = "ST" -> <<"S", "T">>
      [] typ = "UF" -> <<"U", "F">>
      [] typ = "DF" -> <<"D", "F">>

\* the reply lines read by the latest call
ReplyOf(log) == log[2].data

\* a register line: '*', 8 groups of 4 binary digits separated by '_', '*', CR LF
WellFormedRegLine(line) ==
    /\ Len(line) = 43
    /\ line[1] = "*" /\ line[41] = "*" /\ line[42] = "\r" /\ line[43] = "\n"
    /\ \A k \in 0..7 : \A l \in 0..3 : line[2 + 5 * k + l] \in {"0", "1"}
    /\ \A k \in 0..6 : line[6 + 5 * k] = "_"

\* digit l of group k of a register line
DigitAt(line, k, l) == IF line[2 + 5 * k + l] = "1" THEN 1 ELSE 0

\* the array of axis a that reg(typ) fills
Selected(a, typ) ==
    CASE typ = "ST" -> status[a]
      [] typ = "UF" -> usrflt[a]
      [] typ = "DF" -> drvflt[a]

CodeTable(typ) ==
    CASE typ = "ST" -> dstatus
      [] typ = "UF" -> dusrflt
      [] typ = "DF" -> ddrvflt

RegAnswered ==
    /\ call.op = "reg"
    /\ Len(ReplyOf(ser)) = 2
    /\ WellFormedRegLine(ReplyOf(ser)[2])

\* C2: reg(typ) on the axis with id i writes exactly one command, and that
\* command is <i>R(<typ>)\r\n: the register code is part of the bytes written.
C2_RegWritesRegisterCode ==
    call.op = "reg" =>
        Written(ser) =
            <<str(call.axis) \o <<"R", "(">> \o TypChars(call.arg)
                  \o <<")">> \o CRLF>>

\* C3: after reg(typ) has read a well-formed register line, the array chosen
\* by typ holds at k*4+l digit l of group k of the line, for every k in 0..7
\* and l in 0..3, whatever the bits are.
C3_RegStoresEveryDigit ==
    RegAnswered =>
        \A k \in 0..7 : \A l \in 0..3 :
            Selected(call.axis, call.arg)[k * 4 + l + 1] =
                DigitAt(ReplyOf(ser)[2], k, l)

\* C4: when the register line has a bit set whose code k*4+l+1 has no entry
\* in the table of typ, reg stores the bit and completes normally, without
\* a description for that code.
C4_RegToleratesUnmappedCode ==
    RegAnswered =>
        \A n \in 0..31 :
            (DigitAt(ReplyOf(ser)[2], n \div 4, n % 4) = 1
                 /\ (n + 1) \notin CodeTable(call.arg)) =>
                /\ call.result = "ok"
                /\ Selected(call.axis, call.arg)[n + 1] = 1
                /\ \A i \in 1..Len(call.out) : call.out[i] # n + 1

(***************************************************************************)
(* Properties of the profile list, checked under SpecProfile.              *)
(***************************************************************************)
\* the list without its entry at the 1-based position index
WithoutEntry(lst, index) ==
    [i \in 1..(Len(lst) - 1) |-> IF i < index THEN lst[i] ELSE lst[i + 1]]

\* C5: whatever add_profile and del_profile calls were made, an axis holds
\* at most 8 profiles, and an add_profile call made while the list holds 8
\* profiles leaves the list unchanged.
C5_AtMostEightProfiles ==
    [][/\ \A a \in AxisIds : Len(lprofile'[a]) <= 8
       /\ (call'.op = "add_profile" /\ Len(lprofile[call'.axis]) = 8) =>
              lprofile' = lprofile]_vars

\* add_profile was called on a full list: the list holds 8 profiles and none
\* of them is the one the call asked for
C5_Witness ==
    /\ call.op = "add_profile"
    /\ Len(lprofile[call.axis]) = 8
    /\ \A i \in 1..8 : lprofile[call.axis][i].dstep # call.arg.dstep

\* C6: whatever add_profile and del_profile calls were made, the slot
\* numbers num of the profiles of an axis are pairwise distinct and each
\* lies in 1..8.
C6_SlotNumbersDistinct ==
    \A a \in AxisIds :
        /\ \A i \in 1..Len(lprofile[a]) : lprofile[a][i].num \in 1..8
        /\ \A i, j \in 1..Len(lprofile[a]) :
              i # j => lprofile[a][i].num # lprofile[a][j].num

\* C7: add_profile on an axis holding n < 8 profiles appends exactly one
\* profile at the end of the list, and its num is n+1 whatever num the
\* caller passed.
C7_AddAppendsNextSlot ==
    [][(call'.op = "add_profile" /\ Len(lprofile[call'.axis]) < 8) =>
          LET old == lprofile[call'.axis]
              new == lprofile'[call'.axis]
          IN  /\ Len(new) = Len(old) + 1
              /\ SubSeq(new, 1, Len(old)) = old
              /\ new[Len(new)].num = Len(old) + 1
              /\ new[Len(new)].dstep = call'.arg.dstep]_vars

\* three calls made a list of three: the third, add_profile(num=5), appended
\* a profile whose num is 3
C7_Witness ==
    /\ call.op = "add_profile"
    /\ call.arg.num = 5
    /\ ncalls = 3
    /\ Len(lprofile[call.axis]) = 3
    /\ lprofile[call.axis][3].num = 3
    /\ lprofile[call.axis][3].dstep = call.arg.dstep

\* C8: set_profile(slot) with slot greater than the number of profiles of
\* the axis raises the assertion error "profile number not defined", writes
\* nothing to the port and leaves the profile list unchanged.
C8_SetProfileRejectsUndefinedSlot ==
    [][(call'.op = "set_profile" /\ call'.arg > Len(lprofile[call'.axis])) =>
          /\ call'.result = "AssertionError"
          /\ Written(ser') = <<>>
          /\ lprofile' = lprofile]_vars

\* set_profile was called with a slot beyond a list that is not empty
C8_Witness ==
    /\ call.op = "set_profile"
    /\ Len(lprofile[call.axis]) >= 1
    /\ call.arg > Len(lprofile[call.axis])
    /\ call.result = "AssertionError"

\* C9: set_profile(slot) with slot <= number of profiles, on the axis with
\* id i, writes exactly one command, <i>USE<slot>\r\n: the id appears once,
\* as the prefix of the framing.
C9_SetProfileWritesUseOnce ==
    (call.op = "set_profile" /\ call.arg <= Len(lprofile[call.axis])) =>
        Written(ser) =
            <<str(call.axis) \o <<"U", "S", "E">> \o str(call.arg) \o CRLF>>

\* C10: del_profile(index) with index in 1..len(lprofile) removes exactly
\* the profile at that position and keeps the order of the others; with any
\* other index (0 and negative values too) it raises IndexError and leaves
\* the list unchanged.
C10_DelProfileRemovesOrRaises ==
    [][call'.op = "del_profile" =>
          LET old == lprofile[call'.axis]
          IN  IF call'.arg \in 1..Len(old)
              THEN /\ call'.result = "ok"
                   /\ lprofile'[call'.axis] = WithoutEntry(old, call'.arg)
              ELSE /\ call'.result = "IndexError"
                   /\ lprofile' = lprofile]_vars

(***************************************************************************)
(* Properties of home, homeor, reset and mv, checked under SpecMove.       *)
(***************************************************************************)
\* the bytes of command on the wire of the axis with id i
Wire(i, command) == str(i) \o command \o CRLF

\* C14: on a working port home('go') on the axis with id i writes exactly
\* <i>HOME1, <i>ARM1, <i>GH in this order, the 1 being literal, and homeor()
\* writes exactly <i>HOME<i>, <i>ARM<i>, <i>GH.
C14_HomeGoAndHomeorCommands ==
    /\ (call.op = "home" /\ call.fault = NoFault) =>
          (call.arg.cmd = "go" =>
              Written(ser) = << Wire(call.axis, <<"H", "O", "M", "E", "1">>),
                                Wire(call.axis, <<"A", "R", "M", "1">>),
                                Wire(call.axis, <<"G", "H">>) >>)
    /\ (call.op = "homeor" /\ call.fault = NoFault) =>
          Written(ser) =
              << Wire(call.axis, <<"H", "O", "M", "E", Digit(call.axis)>>),
                 Wire(call.axis, <<"A", "R", "M", Digit(call.axis)>>),
                 Wire(call.axis, <<"G", "H">>) >>

\* homeor() was called on axis 2 and has written its three commands
C14_Witness ==
    /\ call.op = "homeor"
    /\ call.axis = 2
    /\ call.fault = NoFault
    /\ Len(Written(ser)) = 3

\* home('go') was called on axis 2 and has written its three commands
C14_WitnessGo ==
    /\ call.op = "home"
    /\ call.arg.cmd = "go"
    /\ call.axis = 2
    /\ call.fault = NoFault
    /\ Len(Written(ser)) = 3

\* C16: reset() writes <id>OFF and, once that exchange has returned, <id>ON;
\* when the port fails during the OFF exchange the call ends with the
\* port's error, ON is not written and OFF is not written again.
C16_ResetStopsAfterFailedOff ==
    call.op = "reset" =>
        /\ call.fault.at # 1 =>
              /\ Len(ser) >= 3
              /\ ser[1] = WriteEv(Wire(call.axis, <<"O", "F", "F">>))
              /\ ser[2].ev = "readlines"
              /\ ser[3].data = Wire(call.axis, <<"O", "N">>)
              /\ \A k \in 1..Len(ser) : k # 1 =>
                    ser[k].data # Wire(call.axis, <<"O", "F", "F">>)
        /\ call.fault.at = 1 =>
              /\ call.result = "SerialException"
              /\ \A k \in 1..Len(ser) :
                    ser[k].data # Wire(call.axis, <<"O", "N">>)
              /\ Cardinality({k \in 1..Len(ser) :
                        ser[k].data = Wire(call.axis, <<"O", "F", "F">>)}) = 1
              /\ Len(Written(ser)) <= 1

\* reset() was called and reading the response to OFF failed
C16_Witness ==
    /\ call.op = "reset"
    /\ call.fault = [at |-> 1, kind |-> "read"]
    /\ Len(ser) = 2

\* |x|
Abs(x) == IF x < 0 THEN -x ELSE x

\* C17: home('set', vel=x) with x # 0 writes
\* <id>HOME<armed>(<edg>,<typ>,<signed-vel>,<acc>,<mode>) where the velocity
\* field is one sign character, + for x > 0 and - for x < 0, followed by |x|.
C17_HomeSetSignedVelocity ==
    (/\ call.op = "home"
     /\ call.fault = NoFault
     /\ call.arg.cmd = "set"
     /\ "vel" \in DOMAIN call.arg.kwargs
     /\ call.arg.kwargs.vel # 0) =>
        LET x  == call.arg.kwargs.vel
            kw == homeKwargs(call.arg.kwargs)
        IN  Written(ser) =
              << Wire(call.axis,
                      <<"H", "O", "M", "E">> \o strNat(kw.armed)
                        \o <<"(", kw.edg, ",">> \o strNat(kw.typ) \o <<",">>
                        \o <<IF x > 0 THEN "+" ELSE "-">> \o strNat(Abs(x))
                        \o <<",">> \o strNat(kw.acc) \o <<",">>
                        \o strNat(kw.mode) \o <<")">>) >>

\* round(n/d) for d > 0: the nearest integer, halves away from zero
round(n, d) ==
    IF n >= 0 THEN (2 * n + d) \div (2 * d) ELSE -((2 * (-n) + d) \div (2 * d))

\* C18: mv(var) sends D<nstep> with nstep = round(var*scale), the integer
\* nearest to var*scale, for positive and negative var and for products
\* with a fractional part of one half or more.
C18_MvRoundsToNearest ==
    (call.op = "mv" /\ call.fault = NoFault) =>
        Written(ser)[1] =
            Wire(call.axis,
                 <<"D">> \o str(round(call.arg.n * scale[call.axis].n,
                                      call.arg.d * scale[call.axis].d)))

\* C20: on a port that answers every command mv(var) returns to its caller
\* after the D<nstep> and G exchanges without raising an error.
C20_MvCompletesNormally ==
    (call.op = "mv" /\ call.fault = NoFault) => call.result = "ok"

(***************************************************************************)
(* Properties of the traffic on the shared port, checked under             *)
(* SpecTransport.                                                          *)
(***************************************************************************)
\* whether the events of log, met with a response outstanding or not, never
\* write a command while a response is outstanding and never read without
\* one
RECURSIVE Alternates(_, _)
Alternates(outstanding, log) ==
    IF log = <<>> THEN TRUE
    ELSE LET e == Head(log)
         IN  CASE e.ev = "write" ->
                    ~outstanding /\ Alternates(TRUE, Tail(log))
               [] e.ev = "write_error" -> Alternates(outstanding, Tail(log))
               [] e.ev = "readlines" ->
                    outstanding /\ Alternates(FALSE, Tail(log))
               [] e.ev = "readlines_error" ->
                    outstanding /\ Alternates(TRUE, Tail(log))

\* C15: over any sequence of getvar, home, set_profile, reset, mvpro, reg,
\* mv and homeor calls on any axes, writes and response reads on the shared
\* port strictly alternate starting with a write: no command is written
\* before the response to the previous one has been read, also when a call
\* ends with an error.
C15_WritesAndReadsAlternate == [][Alternates(unread, ser')]_vars

\* C19: reg(typ) changes at most the array selected by typ: reg('ST')
\* leaves usrflt and drvflt unchanged, reg('UF') leaves status and drvflt
\* unchanged, reg('DF') leaves status and usrflt unchanged; the profile
\* lists and the arrays of every other axis are unchanged and each array
\* keeps length 32, whether the call returns or ends with an error.
C19_RegChangesOnlySelectedArray ==
    [][call'.op = "reg" =>
          /\ lprofile' = lprofile
          /\ \A b \in AxisIds \ {call'.axis} :
                /\ status'[b] = status[b]
                /\ usrflt'[b] = usrflt[b]
                /\ drvflt'[b] = drvflt[b]
          /\ call'.arg # "ST" => status'[call'.axis] = status[call'.axis]
          /\ call'.arg # "UF" => usrflt'[call'.axis] = usrflt[call'.axis]
          /\ call'.arg # "DF" => drvflt'[call'.axis] = drvflt[call'.axis]
          /\ \A b \in AxisIds :
                /\ Len(status'[b]) = 32
                /\ Len(usrflt'[b]) = 32
                /\ Len(drvflt'[b]) = 32]_vars

\* reg('UF') has stored a set bit on axis 2 while axis 1 holds a set bit
\* of an earlier reg('ST')
C19_Witness ==
    /\ call.op = "reg"
    /\ call.axis = 2
    /\ call.arg = "UF"
    /\ usrflt[2] # Zeros32
    /\ status[1] # Zeros32

(***************************************************************************)
(* Properties of Profile, checked under SpecProfileMath.                   *)
(***************************************************************************)
Constructed == call.op = "Profile"

\* a == b for two doubles
FEq(a, b) == (a.m = <<>> /\ b.m = <<>>) \/ a = b

\* C11: the command string of a Profile is
\* PROFILE<num>(<aa>,<ad>,<dstep>,<vmax>,<vs>) with its own parameters in
\* decimal, and Profile() without arguments has PROFILE1(200,200,12800,15,0).
C11_ProfileCommandString ==
    Constructed =>
        /\ call.out.cmd =
              <<"P", "R", "O", "F", "I", "L", "E">>
                \o strNat(call.out.p.num) \o <<"(">>
                \o strNat(call.out.p.aa) \o <<",">>
                \o strNat(call.out.p.ad) \o <<",">>
                \o strNat(call.out.p.dstep) \o <<",">>
                \o strNat(call.out.p.vmax) \o <<",">>
                \o strNat(call.out.p.vs) \o <<")">>
        /\ \A k \in DOMAIN call.arg : call.out.p[k] = call.arg[k]
        /\ call.arg = NoKwargs =>
              call.out.cmd =
                  <<"P", "R", "O", "F", "I", "L", "E", "1", "(",
                    "2", "0", "0", ",", "2", "0", "0", ",",
                    "1", "2", "8", "0", "0", ",", "1", "5", ",", "0", ")">>

\* Profile() was constructed without arguments and has its command string
C11_Witness ==
    /\ Constructed
    /\ call.arg = NoKwargs
    /\ Len(call.out.cmd) = 28

\* the samples of the constructed Profile
Samples == 1..call.out.p.N

\* the value the deceleration branch gives sample i
Decelerated(i) ==
    FAdd(FMul(FNeg(call.out.curve.t[i]), FInt(call.out.p.ad)),
         FAdd(FInt(call.out.p.vmax),
              FMul(FInt(call.out.p.ad), call.out.curve.t2)))

\* C12, as stated: every sample i with t[i] < t1 = vmax/aa has
\* v[i] = aa*t[i], also in a short travel, where t1 > t2 = T - vmax/ad.
C12_RampBelowT1 ==
    Constructed =>
        \A i \in Samples :
            FLt(call.out.curve.t[i], call.out.curve.t1) =>
                FEq(call.out.curve.v[i],
                    FMul(FInt(call.out.p.aa), call.out.curve.t[i]))

\* C12, amended: every sample i with t[i] < t1 and t[i] < t2 has
\* v[i] = aa*t[i], and every sample with t[i] >= t2 has the deceleration
\* value -t[i]*ad+(vmax+ad*t2), also when t[i] < t1.
C12_RampBelowT1AndT2 ==
    Constructed =>
        \A i \in Samples :
            /\ (/\ FLt(call.out.curve.t[i], call.out.curve.t1)
                /\ FLt(call.out.curve.t[i], call.out.curve.t2)) =>
                  FEq(call.out.curve.v[i],
                      FMul(FInt(call.out.p.aa), call.out.curve.t[i]))
            /\ FGe(call.out.curve.t[i], call.out.curve.t2) =>
                  FEq(call.out.curve.v[i], Decelerated(i))

\* a short travel (t1 > t2) was constructed that has a sample after 0 on the
\* acceleration ramp and a sample below t1 in the deceleration phase
C12_Witness ==
    /\ Constructed
    /\ FLt(call.out.curve.t2, call.out.curve.t1)
    /\ \E i \in Samples :
          /\ FLt(call.out.curve.t[i], call.out.curve.t2)
          /\ call.out.curve.t[i] # FZero
    /\ \E j \in Samples :
          /\ FLt(call.out.curve.t[j], call.out.curve.t1)
          /\ FGe(call.out.curve.t[j], call.out.curve.t2)

\* C13: every velocity sample v[i] is non-negative, and ds is non-decreasing:
\* ds[i] >= ds[i-1] for every sample after the first.
C13_VelocityNonNegativeDsMonotone ==
    Constructed =>
        /\ \A i \in Samples : ~FIsNeg(call.out.curve.v[i])
        /\ \A i \in Samples \ {1} :
              FGe(call.out.curve.ds[i], call.out.curve.ds[i - 1])

====
